---- MODULE Spec2Model ----
(***************************************************************************)
(* GStreamerFileSource (src/src/gstreamer_source.py) and the consumer loop *)
(* of main() (src/main.py) as a state machine.                             *)
(*                                                                         *)
(* Four execution contexts touch the object:                               *)
(*   "producer"  the pipeline's streaming thread, running _on_new_sample   *)
(*   "bus"       the GLib main-loop thread, running _on_bus_message        *)
(*   "consumer"  main(): start(), the while-not-done loop, final stop()    *)
(*   "ctl"       any other client of the public start()/stop() methods     *)
(* stop() is three statements and is modelled statement by statement for   *)
(* each context that can be inside it.                                     *)
(***************************************************************************)
EXTENDS Integers, Sequences, FiniteSets, TLC

\* ----------------------------------------------------------------- bounds
MaxCap == 2
MaxSamples == 3
MaxMsgs == 1
MaxCalls == 1

\* ------------------------------------------------- caps of the test stream
Width == 1
Height == 2

Threads == {"producer", "bus", "consumer", "ctl"}
Stoppers == {"bus", "consumer", "ctl"}
MsgTypes == {"EOS", "ERROR", "OTHER"}

VARIABLES
    queue,          \* self._queue: the frames held, oldest first
    capacity,       \* queue_size given to __init__ (maxsize of the queue)
    done,           \* self._done
    pipeline,       \* state of self._pipeline: "NULL" or "PLAYING"
    loopRunning,    \* self._loop.is_running()
    threadStarted,  \* self._thread has been started
    pc,             \* position of each execution context
    prodFrame,      \* the frame the in-flight callback unpacked (0: none)
    msgType,        \* type of the bus message being handled
    logged,         \* number of "GStreamer ERROR" records printed
    nSamples,       \* samples the appsink has delivered so far
    nMsgs,          \* bus messages dispatched so far
    nCalls,         \* start()/stop() calls made by the other client
    pushed,         \* history: frames handed to put_nowait, in order
    dropped,        \* history: number of put_nowait calls that raised Full
    delivered,      \* history: frames returned by get_frame_blocking
    stopCompleted,  \* history: some stop() call has returned
    callAfterStop,  \* history: the pending get was called after a stop()
    notified,       \* history: an EOS/ERROR handler has returned
    sample,         \* the raw sample the last callback pulled
    flow,           \* the Gst.FlowReturn the last callback returned
    frame,          \* the frame the last callback unpacked (<<>>: none)
    nErrors         \* history: callbacks that returned FlowReturn.ERROR

vars == <<queue, capacity, done, pipeline, loopRunning, threadStarted, pc,
          prodFrame, msgType, logged, nSamples, nMsgs, nCalls, pushed,
          dropped, delivered, stopCompleted, callAfterStop, notified,
          sample, flow, frame, nErrors>>

qvars == <<queue, pushed, dropped, delivered>>
lifevars == <<done, pipeline, loopRunning, threadStarted>>
busvars == <<msgType, logged, nMsgs, notified>>
\* The byte-level view of the callback, used by UnpackSpec only.
uvars == <<sample, flow, frame, nErrors>>

\* ------------------------------------------------------------ queue.Queue
\* queue.Queue(maxsize): full when 0 < maxsize <= qsize; maxsize <= 0 is
\* unbounded.
FullOffByOne(q) == capacity > 0 /\ Len(q) > capacity
Full(q) == capacity > 0 /\ Len(q) >= capacity

\* put_nowait on a queue that is not full: append at the tail.
EnqueueFront(q, f) == <<f>> \o q
Enqueue(q, f) == Append(q, f)

\* get(): remove and return the head.
GetFrame(q) == Head(q)
GetRestPeek(q) == q
GetRest(q) == Tail(q)

\* ------------------------------------------------------- the pixel layout
\* The checks of _on_new_sample on one sample: the mapped buffer holds at
\* least row_stride*height bytes and width*3 bytes fit in a row.
SampleOk(mapOk, stride, size) ==
    /\ mapOk
    /\ size >= stride * Height
    /\ Width * 3 <= stride

Strides == {Width * 3 - 1, Width * 3, Width * 3 + 1}

\* Buffer sizes around stride*height for every stride above.
Sizes == ((Width * 3 - 1) * Height - 1)..((Width * 3 + 1) * Height + 1)

\* No sample pulled yet.
NoSample == [k |-> 0, hasMeta |-> FALSE, metaStride |-> 0, size |-> 0,
             mapOk |-> FALSE]

\* Lines 93-102: the stride of plane 0 from the video meta, or, without
\* meta, the buffer size divided by the height.
RowStride(s) == IF s.hasMeta THEN s.metaStride ELSE s.size \div Height

\* expected_size = row_stride * height
ExpectedSize(s) == RowStride(s) * Height

\* valid_row_bytes = width * 3
ValidRowBytes == Width * 3

\* The content of a mapped buffer. A pixel byte carries the number of its
\* sample and its own offset, so that a frame shows which source bytes it
\* was made of; the padding at the end of each row and the bytes after the
\* last row carry marks of their own.
PadByte == 255
TailByte == 254
RawByte(s, off) ==
    IF off >= ExpectedSize(s) THEN TailByte
    ELSE IF RowStride(s) > ValidRowBytes /\ off % RowStride(s) >= ValidRowBytes
         THEN PadByte
         ELSE s.k * 32 + off

\* np.frombuffer(mapinfo.data, dtype=np.uint8)
RawData(s) == [i \in 1..s.size |-> RawByte(s, i - 1)]

\* data[: expected_size]
Truncated(data, n) == SubSeq(data, 1, n)

\* .reshape((height, row_stride)): row r is the r-th run of row_stride bytes.
FramePaddedPacked(data, stride) ==
    [r \in 1..Height |->
       SubSeq(data, (r - 1) * ValidRowBytes + 1,
                    (r - 1) * ValidRowBytes + stride)]
FramePadded(data, stride) ==
    [r \in 1..Height |-> SubSeq(data, (r - 1) * stride + 1, r * stride)]

\* frame_padded[:, :valid_row_bytes]
Frame2dNoCrop(rows) == rows
Frame2d(rows) == [r \in 1..Height |-> SubSeq(rows[r], 1, ValidRowBytes)]

\* .reshape((height, width, 3)).copy(): the rows one after the other.
RECURSIVE FlattenFrom(_, _)
FlattenFrom(rows, r) ==
    IF r > Len(rows) THEN <<>> ELSE rows[r] \o FlattenFrom(rows, r + 1)
RECURSIVE FlattenFlipped(_)
FlattenFlipped(rows) ==
    IF Len(rows) = 0 THEN <<>>
    ELSE rows[Len(rows)] \o FlattenFlipped(SubSeq(rows, 1, Len(rows) - 1))
Flatten(rows) == FlattenFrom(rows, 1)

\* Lines 110-138 on a sample that passed the checks.
Unpack(s) ==
    Flatten(Frame2d(FramePadded(Truncated(RawData(s), ExpectedSize(s)),
                                RowStride(s))))

\* ------------------------------------------------------------- initial state
Init ==
    /\ queue = <<>>
    /\ capacity \in 0..MaxCap
    /\ done = FALSE
    /\ pipeline = "NULL"
    /\ loopRunning = FALSE
    /\ threadStarted = FALSE
    /\ pc = [t \in Threads |->
               CASE t = "producer" -> "idle"
                 [] t = "bus" -> "off"
                 [] t = "consumer" -> "init"
                 [] t = "ctl" -> "idle"]
    /\ prodFrame = 0
    /\ msgType = "OTHER"
    /\ logged = 0
    /\ nSamples = 0
    /\ nMsgs = 0
    /\ nCalls = 0
    /\ pushed = <<>>
    /\ dropped = 0
    /\ delivered = <<>>
    /\ stopCompleted = FALSE
    /\ callAfterStop = FALSE
    /\ notified = FALSE
    /\ sample = NoSample
    /\ flow = "NONE"
    /\ frame = <<>>
    /\ nErrors = 0

\* ------------------------------------------------------------------ start()
\* set_state(PLAYING), then Thread.start(), which raises RuntimeError when
\* the thread was started before. `next` is where the caller goes on return,
\* `onRaise` where it goes when start() raises.
StartResetsDone(t, next, onRaise) ==
    /\ pipeline' = "PLAYING"
    /\ IF threadStarted
       THEN /\ pc' = [pc EXCEPT ![t] = onRaise]
            /\ UNCHANGED threadStarted
       ELSE /\ threadStarted' = TRUE
            /\ pc' = [pc EXCEPT ![t] = next, !["bus"] = "starting"]
    /\ done' = FALSE
    /\ UNCHANGED loopRunning

Start(t, next, onRaise) ==
    /\ pipeline' = "PLAYING"
    /\ IF threadStarted
       THEN /\ pc' = [pc EXCEPT ![t] = onRaise]
            /\ UNCHANGED threadStarted
       ELSE /\ threadStarted' = TRUE
            /\ pc' = [pc EXCEPT ![t] = next, !["bus"] = "starting"]
    /\ UNCHANGED <<done, loopRunning>>

\* ------------------------------------------------------------------- stop()
\* The caller's position after stop() returns.
AfterStop(t) ==
    CASE t = "bus" -> "loop"
      [] t = "consumer" -> "exit"
      [] t = "ctl" -> "idle"

\* self._pipeline.set_state(Gst.State.NULL)
Stop1(t) ==
    /\ pc[t] = "stop1"
    /\ pipeline' = "NULL"
    /\ pc' = [pc EXCEPT ![t] = "stop2"]
    /\ UNCHANGED <<queue, capacity, done, loopRunning, threadStarted,
                   prodFrame, msgType, logged, nSamples, nMsgs, nCalls,
                   pushed, dropped, delivered, stopCompleted, callAfterStop,
                   notified>>
    /\ UNCHANGED uvars

Stop2NoQuit(t) ==
    /\ pc[t] = "stop2"
    /\ pc' = [pc EXCEPT ![t] = "stop3"]
    /\ UNCHANGED <<queue, capacity, done, pipeline, loopRunning,
                   threadStarted, prodFrame, msgType, logged, nSamples,
                   nMsgs, nCalls, pushed, dropped, delivered, stopCompleted,
                   callAfterStop, notified>>
    /\ UNCHANGED uvars

\* if self._loop.is_running(): self._loop.quit()
Stop2(t) ==
    /\ pc[t] = "stop2"
    /\ loopRunning' = IF loopRunning THEN FALSE ELSE loopRunning
    /\ pc' = [pc EXCEPT ![t] = "stop3"]
    /\ UNCHANGED <<queue, capacity, done, pipeline, threadStarted,
                   prodFrame, msgType, logged, nSamples, nMsgs, nCalls,
                   pushed, dropped, delivered, stopCompleted, callAfterStop,
                   notified>>
    /\ UNCHANGED uvars

Stop3Toggle(t) ==
    /\ pc[t] = "stop3"
    /\ done' = ~done
    /\ stopCompleted' = TRUE
    /\ notified' = (notified \/ t = "bus")
    /\ pc' = [pc EXCEPT ![t] = AfterStop(t)]
    /\ UNCHANGED <<queue, capacity, pipeline, loopRunning, threadStarted,
                   prodFrame, msgType, logged, nSamples, nMsgs, nCalls,
                   pushed, dropped, delivered, callAfterStop>>
    /\ UNCHANGED uvars

\* self._done = True, and the return to the caller.
Stop3(t) ==
    /\ pc[t] = "stop3"
    /\ done' = TRUE
    /\ stopCompleted' = TRUE
    /\ notified' = (notified \/ t = "bus")
    /\ pc' = [pc EXCEPT ![t] = AfterStop(t)]
    /\ UNCHANGED <<queue, capacity, pipeline, loopRunning, threadStarted,
                   prodFrame, msgType, logged, nSamples, nMsgs, nCalls,
                   pushed, dropped, delivered, callAfterStop>>
    /\ UNCHANGED uvars

StopStep1 == \E t \in Stoppers : Stop1(t)
StopStep2 == \E t \in Stoppers : Stop2(t)
StopStep3 == \E t \in Stoppers : Stop3(t)

\* --------------------------------------------------------- _on_new_sample
\* Lines 85-138: pull the sample, read its layout, unpack and copy it. A
\* sample that fails a check makes the callback return FlowReturn.ERROR at
\* once; a good one leaves the callback holding the frame, tagged with the
\* sample's number, in front of put_nowait.
ProducerBegin ==
    /\ pc["producer"] = "idle"
    /\ pipeline = "PLAYING"
    /\ nSamples < MaxSamples
    /\ nSamples' = nSamples + 1
    /\ \E mapOk \in BOOLEAN, stride \in Strides :
       \E size \in {stride * Height - 1, stride * Height} :
          IF SampleOk(mapOk, stride, size)
          THEN /\ prodFrame' = nSamples + 1
               /\ pc' = [pc EXCEPT !["producer"] = "put"]
          ELSE /\ prodFrame' = 0
               /\ UNCHANGED pc
    /\ UNCHANGED <<qvars, capacity, lifevars, busvars, nCalls,
                   stopCompleted, callAfterStop>>
    /\ UNCHANGED uvars

ProducerPutBlocking ==
    /\ pc["producer"] = "put"
    /\ ~Full(queue)
    /\ pushed' = Append(pushed, prodFrame)
    /\ queue' = Enqueue(queue, prodFrame)
    /\ prodFrame' = 0
    /\ pc' = [pc EXCEPT !["producer"] = "idle"]
    /\ UNCHANGED <<dropped, delivered, capacity, lifevars, busvars, nSamples,
                   nCalls, stopCompleted, callAfterStop>>
    /\ UNCHANGED uvars

\* Lines 140-149: put_nowait, Full swallowed, unmap, return FlowReturn.OK.
ProducerPut ==
    /\ pc["producer"] = "put"
    /\ pushed' = Append(pushed, prodFrame)
    /\ IF Full(queue)
       THEN /\ dropped' = dropped + 1
            /\ UNCHANGED queue
       ELSE /\ queue' = Enqueue(queue, prodFrame)
            /\ UNCHANGED dropped
    /\ prodFrame' = 0
    /\ pc' = [pc EXCEPT !["producer"] = "idle"]
    /\ UNCHANGED <<delivered, capacity, lifevars, busvars, nSamples, nCalls,
                   stopCompleted, callAfterStop>>
    /\ UNCHANGED uvars

\* ------------------------------------------------------------ the bus thread
\* threading.Thread(target=self._loop.run): the thread enters the main loop.
LoopRun ==
    /\ pc["bus"] = "starting"
    /\ loopRunning' = TRUE
    /\ pc' = [pc EXCEPT !["bus"] = "loop"]
    /\ UNCHANGED <<qvars, capacity, done, pipeline, threadStarted, prodFrame,
                   busvars, nSamples, nCalls, stopCompleted, callAfterStop>>
    /\ UNCHANGED uvars

\* The running loop takes a message the playing pipeline posted and calls
\* _on_bus_message with it.
BusDispatch ==
    /\ pc["bus"] = "loop"
    /\ loopRunning
    /\ pipeline = "PLAYING"
    /\ nMsgs < MaxMsgs
    /\ nMsgs' = nMsgs + 1
    /\ \E m \in MsgTypes : msgType' = m
    /\ pc' = [pc EXCEPT !["bus"] = "handler"]
    /\ UNCHANGED <<qvars, capacity, lifevars, prodFrame, logged, nSamples,
                   nCalls, stopCompleted, callAfterStop, notified>>
    /\ UNCHANGED uvars

BusHandleErrorNoStop ==
    /\ pc["bus"] = "handler"
    /\ IF msgType = "EOS"
       THEN /\ done' = TRUE
            /\ pc' = [pc EXCEPT !["bus"] = "stop1"]
            /\ UNCHANGED logged
       ELSE /\ done' = (done \/ msgType = "ERROR")
            /\ logged' = IF msgType = "ERROR" THEN logged + 1 ELSE logged
            /\ pc' = [pc EXCEPT !["bus"] = "loop"]
    /\ UNCHANGED <<qvars, capacity, pipeline, loopRunning, threadStarted,
                   prodFrame, msgType, nMsgs, notified, nSamples, nCalls,
                   stopCompleted, callAfterStop>>
    /\ UNCHANGED uvars

\* _on_bus_message up to its call of self.stop(): EOS and ERROR set _done
\* (ERROR prints first); any other message is ignored.
BusHandle ==
    /\ pc["bus"] = "handler"
    /\ IF msgType \in {"EOS", "ERROR"}
       THEN /\ done' = TRUE
            /\ logged' = IF msgType = "ERROR" THEN logged + 1 ELSE logged
            /\ pc' = [pc EXCEPT !["bus"] = "stop1"]
       ELSE /\ pc' = [pc EXCEPT !["bus"] = "loop"]
            /\ UNCHANGED <<done, logged>>
    /\ UNCHANGED <<qvars, capacity, pipeline, loopRunning, threadStarted,
                   prodFrame, msgType, nMsgs, notified, nSamples, nCalls,
                   stopCompleted, callAfterStop>>
    /\ UNCHANGED uvars

\* loop.run() returns once quit() was called, and the thread ends.
LoopExit ==
    /\ pc["bus"] = "loop"
    /\ ~loopRunning
    /\ pc' = [pc EXCEPT !["bus"] = "exited"]
    /\ UNCHANGED <<qvars, capacity, lifevars, prodFrame, busvars, nSamples,
                   nCalls, stopCompleted, callAfterStop>>
    /\ UNCHANGED uvars

\* ------------------------------------------------------------------- main()
\* source.start()
MainStart ==
    /\ pc["consumer"] = "init"
    /\ Start("consumer", "check", "raised")
    /\ UNCHANGED <<qvars, capacity, prodFrame, busvars, nSamples, nCalls,
                   stopCompleted, callAfterStop>>
    /\ UNCHANGED uvars

\* while not source.done
ConsumerCheck ==
    /\ pc["consumer"] = "check"
    /\ pc' = [pc EXCEPT !["consumer"] = IF done THEN "stop1" ELSE "call"]
    /\ UNCHANGED <<qvars, capacity, lifevars, prodFrame, busvars, nSamples,
                   nCalls, stopCompleted, callAfterStop>>
    /\ UNCHANGED uvars

\* The executor calls source.get_frame_blocking.
ConsumerCall ==
    /\ pc["consumer"] = "call"
    /\ callAfterStop' = stopCompleted
    /\ pc' = [pc EXCEPT !["consumer"] = "get"]
    /\ UNCHANGED <<qvars, capacity, lifevars, prodFrame, busvars, nSamples,
                   nCalls, stopCompleted>>
    /\ UNCHANGED uvars

\* self._queue.get(): waits for a frame, removes and returns it; the frame
\* is processed and the loop goes back to its test.
ConsumerGet ==
    /\ pc["consumer"] = "get"
    /\ queue # <<>>
    /\ delivered' = Append(delivered, GetFrame(queue))
    /\ queue' = GetRest(queue)
    /\ callAfterStop' = FALSE
    /\ pc' = [pc EXCEPT !["consumer"] = "check"]
    /\ UNCHANGED <<pushed, dropped, capacity, lifevars, prodFrame, busvars,
                   nSamples, nCalls, stopCompleted>>
    /\ UNCHANGED uvars

\* ------------------------------------------------------- the other client
CtlStart ==
    /\ pc["ctl"] = "idle"
    /\ nCalls < MaxCalls
    /\ nCalls' = nCalls + 1
    /\ Start("ctl", "idle", "idle")
    /\ UNCHANGED <<qvars, capacity, prodFrame, busvars, nSamples,
                   stopCompleted, callAfterStop>>
    /\ UNCHANGED uvars

CtlStop ==
    /\ pc["ctl"] = "idle"
    /\ nCalls < MaxCalls
    /\ nCalls' = nCalls + 1
    /\ pc' = [pc EXCEPT !["ctl"] = "stop1"]
    /\ UNCHANGED <<qvars, capacity, lifevars, prodFrame, busvars, nSamples,
                   stopCompleted, callAfterStop>>
    /\ UNCHANGED uvars

\* ----------------------------------------------------------- specification
Next ==
    \/ ProducerBegin
    \/ ProducerPut
    \/ LoopRun
    \/ BusDispatch
    \/ BusHandle
    \/ LoopExit
    \/ MainStart
    \/ ConsumerCheck
    \/ ConsumerCall
    \/ ConsumerGet
    \/ StopStep1
    \/ StopStep2
    \/ StopStep3
    \/ CtlStart
    \/ CtlStop

Spec == Init /\ [][Next]_vars

\* Every execution context that can take a step eventually takes one; the
\* other client is not obliged to make a call, only to finish one.
FairSpec ==
    /\ Spec
    /\ WF_vars(ProducerBegin \/ ProducerPut)
    /\ WF_vars(LoopRun \/ BusDispatch \/ BusHandle \/ LoopExit)
    /\ WF_vars(MainStart \/ ConsumerCheck \/ ConsumerCall \/ ConsumerGet)
    /\ WF_vars(StopStep1 \/ StopStep2 \/ StopStep3)

\* ------------------------------------------------- the callback, byte by byte
\* _on_new_sample called with one sample after the other, as a synthetic
\* source calls it, and get_frame_blocking taking frames out. Here a frame
\* is its bytes, and the whole callback is one step.
NewSampleErrorStops ==
    /\ nSamples < MaxSamples
    /\ nSamples' = nSamples + 1
    /\ \E hasMeta \in BOOLEAN, size \in Sizes, mapOk \in BOOLEAN :
       \E metaStride \in IF hasMeta THEN Strides ELSE {0} :
         LET s == [k |-> nSamples + 1, hasMeta |-> hasMeta,
                   metaStride |-> metaStride, size |-> size,
                   mapOk |-> mapOk]
         IN /\ sample' = s
            /\ IF SampleOk(s.mapOk, RowStride(s), s.size)
               THEN /\ frame' = Unpack(s)
                    /\ flow' = "OK"
                    /\ pushed' = Append(pushed, frame')
                    /\ IF Full(queue)
                       THEN /\ dropped' = dropped + 1
                            /\ UNCHANGED queue
                       ELSE /\ queue' = Enqueue(queue, frame')
                            /\ UNCHANGED dropped
                    /\ UNCHANGED <<nErrors, done>>
               ELSE /\ frame' = <<>>
                    /\ flow' = "ERROR"
                    /\ nErrors' = nErrors + 1
                    /\ done' = TRUE
                    /\ UNCHANGED <<queue, pushed, dropped>>
    /\ UNCHANGED <<delivered, capacity, pipeline, loopRunning, threadStarted,
                   pc, prodFrame, busvars, nCalls, stopCompleted,
                   callAfterStop>>

\* Lines 83-149.
NewSample ==
    /\ nSamples < MaxSamples
    /\ nSamples' = nSamples + 1
    /\ \E hasMeta \in BOOLEAN, size \in Sizes, mapOk \in BOOLEAN :
       \E metaStride \in IF hasMeta THEN Strides ELSE {0} :
         LET s == [k |-> nSamples + 1, hasMeta |-> hasMeta,
                   metaStride |-> metaStride, size |-> size,
                   mapOk |-> mapOk]
         IN /\ sample' = s
            /\ IF SampleOk(s.mapOk, RowStride(s), s.size)
               THEN /\ frame' = Unpack(s)
                    /\ flow' = "OK"
                    /\ pushed' = Append(pushed, frame')
                    /\ IF Full(queue)
                       THEN /\ dropped' = dropped + 1
                            /\ UNCHANGED queue
                       ELSE /\ queue' = Enqueue(queue, frame')
                            /\ UNCHANGED dropped
                    /\ UNCHANGED nErrors
               ELSE /\ frame' = <<>>
                    /\ flow' = "ERROR"
                    /\ nErrors' = nErrors + 1
                    /\ UNCHANGED <<queue, pushed, dropped>>
    /\ UNCHANGED <<delivered, capacity, lifevars, pc, prodFrame, busvars,
                   nCalls, stopCompleted, callAfterStop>>

\* Lines 151-157, called when a frame is there.
NextFrame ==
    /\ queue # <<>>
    /\ delivered' = Append(delivered, GetFrame(queue))
    /\ queue' = GetRest(queue)
    /\ UNCHANGED <<pushed, dropped, capacity, lifevars, pc, prodFrame,
                   busvars, nSamples, nCalls, stopCompleted, callAfterStop,
                   uvars>>

UnpackNext ==
    \/ NewSample
    \/ NextFrame

UnpackSpec == Init /\ [][UnpackNext]_vars

\* ------------------------------------------------------------------ helpers
Range(q) == {q[i] : i \in DOMAIN q}
InLoop == pc["consumer"] \in {"check", "call", "get"}
PastLoop == pc["consumer"] \in {"stop1", "stop2", "stop3", "exit"}

\* The labels of stop(), and the lifecycle state of spec section 4.3 read
\* off the program state: Playing while the pipeline plays, Idle while it
\* is NULL and start() was never called, Stopped when it is NULL after it
\* has played.
StopLabels == {"stop1", "stop2", "stop3"}
InStop(t) == pc[t] \in StopLabels
LifeState ==
    IF pipeline = "PLAYING" THEN "Playing"
    ELSE IF threadStarted THEN "Stopped" ELSE "Idle"
\* The handler of an EOS or ERROR message is between its entry and its
\* return.
Handling == pc["bus"] \in {"handler"} \cup StopLabels /\ msgType \in {"EOS", "ERROR"}

\* ------------------------------------------------------------------- claims

\* C1: with capacity >= 1, a push that finds `capacity` frames in the queue
\* leaves the queue as it was and any other push appends the frame at the
\* tail; the queue never holds more than `capacity` frames; and while
\* nothing has been popped, more than `capacity` pushes leave exactly the
\* first `capacity` frames pushed.
C1_DropNewest ==
    /\ [](capacity >= 1 => Len(queue) <= capacity)
    /\ []((capacity >= 1 /\ delivered = <<>> /\ Len(pushed) > capacity)
            => queue = SubSeq(pushed, 1, capacity))
    /\ [][(capacity >= 1 /\ Len(pushed') = Len(pushed) + 1)
            => queue' = IF Len(queue) = capacity
                        THEN queue
                        ELSE Append(queue, pushed'[Len(pushed')])]_vars

C1_Witness ==
    /\ capacity = 2
    /\ delivered = <<>>
    /\ pushed = <<1, 2, 3>>
    /\ queue = <<1, 2>>
    /\ dropped = 1

\* C2: the frames returned to the consumer come in production order with
\* none returned twice, each of them a frame that was pushed; and when no
\* push was dropped they are a prefix of the pushed frames.
C2_OrderedSubsequence ==
    /\ \A i, j \in DOMAIN delivered : i < j => delivered[i] < delivered[j]
    /\ Range(delivered) \subseteq Range(pushed)
    /\ dropped = 0 =>
         /\ Len(delivered) <= Len(pushed)
         /\ delivered = SubSeq(pushed, 1, Len(delivered))

C2_Witness ==
    /\ Len(delivered) >= 2
    /\ dropped >= 1
    /\ delivered # SubSeq(pushed, 1, Len(delivered))

\* C3: pushes minus drops minus pops is the number of frames in the queue,
\* and the frames pushed are, each exactly once, the frames still queued,
\* the frames delivered, or frames that were dropped.
C3_Conservation ==
    /\ Len(pushed) - dropped - Len(delivered) = Len(queue)
    /\ Cardinality(Range(queue) \cup Range(delivered))
         = Len(queue) + Len(delivered)
    /\ Range(queue) \cup Range(delivered) \subseteq Range(pushed)

C3_Witness ==
    /\ dropped >= 1
    /\ Len(delivered) >= 1
    /\ Len(queue) >= 1

\* C4: a callback that is in flight can always take its next step and
\* return, whatever the queue holds and wherever the consumer is.
C4_ProducerNeverWaits ==
    pc["producer"] = "put" => ENABLED ProducerPut

C4_Witness ==
    /\ pc["producer"] = "put"
    /\ capacity >= 1
    /\ Len(queue) = capacity
    /\ pc["consumer"] = "exit"

\* C5: when stop() is entered while the consumer waits in
\* get_frame_blocking on an empty queue, the waiting call eventually
\* returns.
C5_StopWakesWaiter ==
    (/\ pc["consumer"] = "get"
     /\ queue = <<>>
     /\ \E t \in Stoppers : pc[t] = "stop1")
      ~> (pc["consumer"] # "get")

\* C6: a get_frame_blocking call made after a stop() returned, with the
\* queue empty, does not wait forever.
C6_GetAfterStopEnds ==
    (/\ pc["consumer"] = "get"
     /\ callAfterStop
     /\ queue = <<>>)
      ~> (pc["consumer"] # "get")

\* C7: once done is true no step adds a frame to the queue.
C7_NoPushAfterDone ==
    [][done => Len(queue') <= Len(queue)]_vars

\* C8: the consumer loop is left only with done true and the queue empty.
C8_ExitOnlyWhenDrained ==
    [][(pc["consumer"] = "check" /\ pc'["consumer"] = "stop1")
         => (done /\ queue = <<>>)]_vars

\* C9: once an EOS or ERROR handler has returned, a consumer that is in its
\* loop eventually leaves it and goes on to the final source.stop().
C9_ConsumerTerminates ==
    (notified /\ InLoop) ~> PastLoop

\* C10: done is false at construction, and no step takes it from true back
\* to false.
C10_DoneMonotonic ==
    /\ done = FALSE
    /\ [][done => done']_vars

C10_Witness ==
    /\ done
    /\ stopCompleted
    /\ pipeline = "PLAYING"

\* C11: once an EOS handler has returned, done is true and, no other client
\* having called start(), the pipeline is NULL. Every stop() call can always
\* take its next step (it neither raises nor waits), sets the pipeline to
\* NULL, never takes done from true to false or the pipeline from NULL to
\* PLAYING, and started from the state a stop() leaves (pipeline NULL, loop
\* not running, done true) it leaves that state as it is.
C11_StopIdempotent ==
    /\ []((notified /\ nCalls = 0) => (done /\ pipeline = "NULL"))
    /\ [](\A t \in Stoppers :
            InStop(t) => ENABLED (Stop1(t) \/ Stop2(t) \/ Stop3(t)))
    /\ [][\A t \in Stoppers : (InStop(t) /\ pc'[t] # pc[t]) =>
            /\ done => done'
            /\ pipeline = "NULL" => pipeline' = "NULL"
            /\ pc[t] = "stop1" => pipeline' = "NULL"
            /\ pc[t] = "stop3" => done'
            /\ (done /\ pipeline = "NULL" /\ ~loopRunning) =>
                 (done' /\ pipeline' = "NULL" /\ ~loopRunning')]_vars

C11_Witness ==
    /\ notified
    /\ msgType = "EOS"
    /\ pc["bus"] = "exited"
    /\ pc["consumer"] = "exit"
    /\ nCalls = 1
    /\ done
    /\ pipeline = "NULL"

\* C12: every step of the handler of an ERROR message has the effect on
\* done, the pipeline, the loop, the queue and the handler's position that
\* the same step has for an EOS message; only the ERROR handler prints.
C12_ErrorLikeEos ==
    [][(Handling /\ pc'["bus"] # pc["bus"]) =>
         /\ queue' = queue
         /\ pc["bus"] = "handler" =>
              /\ done' /\ pc'["bus"] = "stop1"
              /\ pipeline' = pipeline /\ loopRunning' = loopRunning
              /\ logged' = logged + (IF msgType = "ERROR" THEN 1 ELSE 0)
         /\ pc["bus"] = "stop1" =>
              /\ pipeline' = "NULL" /\ pc'["bus"] = "stop2"
              /\ done' = done /\ loopRunning' = loopRunning
              /\ logged' = logged
         /\ pc["bus"] = "stop2" =>
              /\ ~loopRunning' /\ pc'["bus"] = "stop3"
              /\ done' = done /\ pipeline' = pipeline /\ logged' = logged
         /\ pc["bus"] = "stop3" =>
              /\ done' /\ pc'["bus"] = "loop"
              /\ pipeline' = pipeline /\ loopRunning' = loopRunning
              /\ logged' = logged]_vars

C12_Witness ==
    /\ notified
    /\ msgType = "ERROR"
    /\ logged = 1
    /\ done
    /\ pipeline = "NULL"
    /\ ~loopRunning

\* C17: once the lifecycle state is Stopped, no step makes it Playing.
C17_StoppedTerminal ==
    [][LifeState = "Stopped" => LifeState' # "Playing"]_vars

\* C18: done is written once: a step that writes done (the assignment of
\* stop(), or that of the EOS/ERROR handler) finds it not yet written.
C18_SingleWrite ==
    [][((\E t \in Stoppers : pc[t] = "stop3" /\ pc'[t] # "stop3")
         \/ (pc["bus"] = "handler" /\ pc'["bus"] = "stop1"))
        => ~done]_vars

\* C19: whenever done is true the pipeline is no longer playing.
C19_DoneImpliesStopped ==
    done => pipeline # "PLAYING"

\* C20: with the consumer's final stop() and the handler's stop() the only
\* stop() calls, at every point of every interleaving a call that is past
\* its first statement has the pipeline NULL, one past its second has the
\* loop not running, and one that returned has done true; so when both have
\* returned the pipeline is NULL, the loop is not running and done is true.
C20_ConcurrentStops ==
    nCalls = 0 =>
      /\ \A t \in {"consumer", "bus"} :
           /\ pc[t] \in {"stop2", "stop3"} => pipeline = "NULL"
           /\ pc[t] = "stop3" => ~loopRunning
      /\ (pc["consumer"] = "exit" \/ notified) =>
           (pipeline = "NULL" /\ ~loopRunning /\ done)

C20_Witness ==
    /\ nCalls = 0
    /\ pc["consumer"] = "stop2"
    /\ pc["bus"] = "stop3"

\* The last callback was given a sample whose buffer could be mapped and
\* holds at least stride*height bytes.
Processed ==
    /\ sample # NoSample
    /\ sample.mapOk
    /\ sample.size >= ExpectedSize(sample)

\* C13 as stated: for a sample with stride = width*3 the frame produced is
\* byte for byte the raw buffer.
C13_FrameIsBuffer ==
    (sample # NoSample /\ RowStride(sample) = Width * 3 /\ flow = "OK")
      => frame = RawData(sample)

\* C13, amended: for a sample with stride = width*3 and at least
\* stride*height bytes a frame is produced and it is the first
\* stride*height bytes of the raw buffer, hence the whole buffer when the
\* buffer has exactly stride*height bytes.
C13_FrameIsBufferPrefix ==
    (Processed /\ RowStride(sample) = Width * 3) =>
      /\ flow = "OK"
      /\ Len(frame) = Width * 3 * Height
      /\ \A i \in 1..Len(frame) : frame[i] = RawData(sample)[i]
      /\ sample.size = Width * 3 * Height => frame = RawData(sample)

C13_Witness ==
    /\ Processed
    /\ RowStride(sample) = Width * 3
    /\ sample.size > ExpectedSize(sample)
    /\ flow = "OK"
    /\ frame # RawData(sample)

\* C14: for a sample with stride > width*3 and at least stride*height bytes,
\* byte r*width*3 + c of the frame is source byte r*stride + c for every row
\* r < height and offset c < width*3; stride - width*3 bytes are dropped
\* from each row, and no byte at or after stride*height is in the frame.
C14_RowsWithoutPadding ==
    (Processed /\ RowStride(sample) > Width * 3) =>
      /\ flow = "OK"
      /\ Len(frame) = Height * Width * 3
      /\ \A r \in 0..(Height - 1), c \in 0..(Width * 3 - 1) :
           frame[r * Width * 3 + c + 1]
             = RawData(sample)[r * RowStride(sample) + c + 1]
      /\ ExpectedSize(sample) - Len(frame)
           = Height * (RowStride(sample) - Width * 3)
      /\ \A i \in 1..Len(frame) :
           \E o \in 1..ExpectedSize(sample) : frame[i] = RawData(sample)[o]
      /\ \A i \in 1..Len(frame) : frame[i] # TailByte

C14_Witness ==
    /\ Processed
    /\ RowStride(sample) = Width * 3 + 1
    /\ sample.size > ExpectedSize(sample)
    /\ flow = "OK"

\* C15: a callback given a sample with width*3 > stride, or with a buffer
\* shorter than stride*height, returns FlowReturn.ERROR and leaves the queue
\* and done as they were; a callback given any other sample whose buffer
\* can be mapped, whatever failed before it, returns OK with the unpacked
\* frame, which is appended to the queue unless the queue is full.
C15_UnpackFailureLocal ==
    [][nSamples' = nSamples + 1 =>
         IF \/ Width * 3 > RowStride(sample')
            \/ sample'.size < ExpectedSize(sample')
         THEN /\ flow' = "ERROR"
              /\ frame' = <<>>
              /\ queue' = queue
              /\ done' = done
         ELSE sample'.mapOk =>
                /\ flow' = "OK"
                /\ Len(frame') = Width * Height * 3
                /\ frame'[1] = RawData(sample')[1]
                /\ queue' = IF capacity > 0 /\ Len(queue) = capacity
                            THEN queue
                            ELSE Append(queue, frame')]_vars

C15_Witness ==
    /\ nSamples = 2
    /\ nErrors = 1
    /\ Width * 3 <= RowStride(sample)
    /\ flow = "OK"
    /\ queue = <<frame>>
    /\ ~done

\* C16: every frame in the queue, and every frame get_frame_blocking
\* returned, has width*height*3 bytes, none of them a padding byte or a
\* byte from after the last row.
C16_FramesPacked ==
    \A q \in {queue, delivered} : \A i \in 1..Len(q) :
      /\ Len(q[i]) = Width * Height * 3
      /\ \A j \in 1..Len(q[i]) : q[i][j] \notin {PadByte, TailByte}

C16_Witness ==
    /\ Len(delivered) >= 1
    /\ Len(queue) >= 1
    /\ RowStride(sample) > Width * 3
    /\ flow = "OK"
    /\ queue[Len(queue)] = frame
    /\ \E i \in 1..sample.size : RawData(sample)[i] = PadByte

====
